---- MODULE Spec2Model ----
(***************************************************************************)
(* A model of the crochet pattern front end: the lexer (src/src/lex.rs),   *)
(* the recursive-descent parser (src/src/parse.rs), the instruction tree   *)
(* with its stitch counts and Display (src/src/lib.rs) and the lint pass   *)
(* (src/src/lint.rs).                                                      *)
(*                                                                         *)
(* A source text is a sequence of one-character strings.  A u32 is a       *)
(* little-endian sequence of base-256 limbs without high zero limbs, so    *)
(* that values up to and beyond 2^32 are exact: a u32 holds at most        *)
(* U32Bytes limbs.                                                         *)
(***************************************************************************)
EXTENDS Integers, Sequences, FiniteSets, TLC

VARIABLES source, build, pc, ts, res, result, lints, text, result2, text2,
          collected, stack, steps

vars == <<source, build, pc, ts, res, result, lints, text, result2, text2,
          collected, stack, steps>>

----------------------------------------------------------------------------
(* Bounds of the inputs.                                                   *)

\* chunks of a source of the parse specification
MaxChunks == 4
\* rounds (lines) of a source of the lint specification
MaxRounds == 3
\* bracket nesting of a source of the round-trip specification
MaxDepth == 2
\* the most suffixes written after one instruction
MaxSuffixes == 3
\* the most pieces of a source text given to the lexer alone
MaxLexChunks == 3
\* the most keywords and parts of keywords of a source text
MaxKeywords == 3
\* the most pieces of a source text parsed step by step
MaxStepChunks == 3
\* the most steps counted
MaxSteps == 40

----------------------------------------------------------------------------
(* Characters.                                                             *)

NL == "\n"
TAB == "\t"

\* str::trim / str::trim_end: the white space of the modelled alphabet
IsWhite(c) == c \in {" ", TAB, NL}

Digits == <<"0", "1", "2", "3", "4", "5", "6", "7", "8", "9">>

IsDigit(c) == \E i \in 1..10 : Digits[i] = c

DigitVal(c) == (CHOOSE i \in 1..10 : Digits[i] = c) - 1

RECURSIVE Cat(_)
\* the concatenation of a sequence of texts
Cat(ss) == IF ss = <<>> THEN <<>> ELSE Head(ss) \o Cat(Tail(ss))

RECURSIVE trim_start(_)
trim_start(s) ==
    IF s # <<>> /\ IsWhite(Head(s)) THEN trim_start(Tail(s)) ELSE s

RECURSIVE trim_end(_)
trim_end(s) ==
    IF s # <<>> /\ IsWhite(s[Len(s)]) THEN trim_end(SubSeq(s, 1, Len(s) - 1)) ELSE s

trim(s) == trim_end(trim_start(s))

starts_with(s, p) == Len(p) <= Len(s) /\ SubSeq(s, 1, Len(p)) = p

----------------------------------------------------------------------------
(* u32 arithmetic on limbs.                                                *)

U32Bytes == 4
LimbBase == 2 ^ 8

\* a panic (an unwinding abort) where a number is expected
PanicN == <<-1>>

RECURSIVE Norm(_)
Norm(x) == IF x # <<>> /\ x[Len(x)] = 0 THEN Norm(SubSeq(x, 1, Len(x) - 1)) ELSE x

Limb(x, i) == IF i <= Len(x) THEN x[i] ELSE 0

RECURSIVE AddCarry(_, _, _)
AddCarry(a, b, c) ==
    IF a = <<>> /\ b = <<>>
    THEN (IF c = 0 THEN <<>> ELSE <<c>>)
    ELSE LET s == Limb(a, 1) + Limb(b, 1) + c
         IN  <<s % LimbBase>>
             \o AddCarry(IF a = <<>> THEN <<>> ELSE Tail(a),
                         IF b = <<>> THEN <<>> ELSE Tail(b), s \div LimbBase)

\* the exact sum
AddN(a, b) == Norm(AddCarry(a, b, 0))

RECURSIVE MulLimb(_, _, _)
\* a times the single limb (or small number) m, plus the carry c
MulLimb(a, m, c) ==
    IF a = <<>>
    THEN (IF c = 0 THEN <<>> ELSE <<c % LimbBase>> \o MulLimb(<<>>, m, c \div LimbBase))
    ELSE LET p == Head(a) * m + c
         IN  <<p % LimbBase>> \o MulLimb(Tail(a), m, p \div LimbBase)

RECURSIVE MulN(_, _)
\* the exact product
MulN(a, b) ==
    IF b = <<>> THEN <<>>
    ELSE AddN(Norm(MulLimb(a, Head(b), 0)), Norm(<<0>> \o MulN(a, Tail(b))))

FitsU32(x) == Len(x) <= U32Bytes

\* the value modulo 2^32
WrapU32(x) == IF FitsU32(x) THEN x ELSE Norm(SubSeq(x, 1, U32Bytes))

Small(n) == Norm(<<n % LimbBase, n \div LimbBase>>)

RECURSIVE FromDecimal(_, _)
\* the exact value of a run of decimal digits, most significant first
FromDecimal(ds, acc) ==
    IF ds = <<>> THEN acc
    ELSE FromDecimal(Tail(ds), Norm(MulLimb(acc, 10, DigitVal(Head(ds)))))

RECURSIVE DivMod10(_, _)
\* x (most significant limb first here) divided by ten: <<quotient limbs, rest>>
DivMod10(xr, r) ==
    IF xr = <<>> THEN <<<<>>, r>>
    ELSE LET cur == r * LimbBase + Head(xr)
             rec == DivMod10(Tail(xr), cur % 10)
         IN  <<<<cur \div 10>> \o rec[1], rec[2]>>

Reverse(s) == [i \in 1..Len(s) |-> s[Len(s) + 1 - i]]

RECURSIVE ToDecimalRev(_)
ToDecimalRev(x) ==
    IF x = <<>> THEN <<>>
    ELSE LET qr == DivMod10(Reverse(x), 0)
         IN  <<Digits[qr[2] + 1]>> \o ToDecimalRev(Norm(Reverse(qr[1])))

\* the decimal rendering of a u32 ({times} in a format string)
ToDecimal(x) == IF x = <<>> THEN <<"0">> ELSE Reverse(ToDecimalRev(x))

----------------------------------------------------------------------------
(* The lexer, src/src/lex.rs.  A token is [kind, n, s, line, col]: n is    *)
(* the payload of a Number, s that of a Comment.  The kind "None" is       *)
(* Option::None, the kind "Panic" an abort raised while lexing.            *)

Token(kind, n, s, line, col) ==
    [kind |-> kind, n |-> n, s |-> s, line |-> line, col |-> col]

None == Token("None", <<>>, <<>>, 0, 0)

PanicTok == Token("Panic", <<>>, <<>>, 0, 0)

source_loc(t) == <<t.line, t.col>>

\* TokenStream::new
tokenize(src) ==
    [source |-> trim_end(src), line |-> 1, col |-> 1, peeked_token |-> None]

current_loc(s) ==
    IF s.peeked_token.kind # "None" THEN source_loc(s.peeked_token)
    ELSE <<s.line, s.col>>

is_empty(s) == s.source = <<>> /\ s.peeked_token.kind = "None"

\* Option<u8>: the first byte, "" for None
peek_char(s) == IF s.source = <<>> THEN "" ELSE Head(s.source)

\* next_char counting a newline as one more column
next_char_columns_only(s) ==
    IF s.source = <<>> THEN s
    ELSE [s EXCEPT !.source = Tail(s.source), !.col = s.col + 1]

\* the stream after next_char
next_char(s) ==
    IF s.source = <<>> THEN s
    ELSE IF Head(s.source) = NL
         THEN [s EXCEPT !.line = @ + 1, !.col = 1, !.source = Tail(@)]
         ELSE [s EXCEPT !.col = @ + 1, !.source = Tail(@)]

make_token(s, kind) == Token(kind, <<>>, <<>>, s.line, s.col)

RECURSIVE next_chars(_, _)
\* n times next_char
next_chars(s, n) == IF n = 0 THEN s ELSE next_chars(next_char(s), n - 1)

\* <<eaten, stream>>
\* eat_string that stops one byte before the end of the string
eat_string_one_short(s, string) ==
    IF starts_with(s.source, string)
    THEN [ok |-> TRUE, ts |-> next_chars(s, Len(string) - 1)]
    ELSE [ok |-> FALSE, ts |-> s]

eat_string(s, string) ==
    IF starts_with(s.source, string)
    THEN [ok |-> TRUE, ts |-> next_chars(s, Len(string))]
    ELSE [ok |-> FALSE, ts |-> s]

symbol_tokens ==
    << <<NL, "Newline">>, <<"[", "LBracket">>, <<"]", "RBracket">>, <<",", "Comma">> >>

lex_symbol(s) ==
    IF s.source = <<>> THEN [ts |-> s, tok |-> None]
    ELSE IF \E i \in 1..Len(symbol_tokens) : symbol_tokens[i][1] = Head(s.source)
         THEN LET i == CHOOSE j \in 1..Len(symbol_tokens) :
                           symbol_tokens[j][1] = Head(s.source)
              IN  [ts |-> next_char(s), tok |-> make_token(s, symbol_tokens[i][2])]
         ELSE [ts |-> s, tok |-> None]

\* the keyword table as written, before it is sorted
keywords ==
    << << <<"i", "n", " ", "m", "r">>, "InMr" >>,
       << <<"b", "l", "i", "n", "c">>, "Blinc" >>,
       << <<"f", "l", "i", "n", "c">>, "Flinc" >>,
       << <<"f", "p", "s", "c">>, "Fpsc" >>,
       << <<"b", "p", "s", "c">>, "Bpsc" >>,
       << <<"b", "l", "s", "c">>, "Blsc" >>,
       << <<"i", "n", "c">>, "Inc" >>,
       << <<"d", "e", "c">>, "Dec" >>,
       << <<"s", "c">>, "Sc" >>,
       << <<"c", "h">>, "Ch" >>,
       << <<"t", "c", "h">>, "Tch" >>,
       << <<"s", "k", "i", "p">>, "Skip" >> >>

RECURSIVE InsertByLen(_, _)
\* e put into the sorted table after every entry at least as long (a stable sort)
InsertByLen(sorted, e) ==
    IF sorted # <<>> /\ Len(Head(sorted)[1]) >= Len(e[1])
    THEN <<Head(sorted)>> \o InsertByLen(Tail(sorted), e)
    ELSE <<e>> \o sorted

RECURSIVE SortByLenDesc(_, _)
\* sort_by_key(Reverse(len)) of the entries kws, added to sorted
SortByLenDesc(kws, sorted) ==
    IF kws = <<>> THEN sorted
    ELSE SortByLenDesc(Tail(kws), InsertByLen(sorted, Head(kws)))

sorted_keywords == SortByLenDesc(keywords, <<>>)

RECURSIVE try_keywords(_, _)
\* the for loop of lex_keyword over the table kws
try_keywords(s, kws) ==
    IF kws = <<>> THEN [ts |-> s, tok |-> None]
    ELSE LET e == eat_string(s, Head(kws)[1])
         IN  IF e.ok THEN [ts |-> e.ts, tok |-> make_token(s, Head(kws)[2])]
             ELSE try_keywords(s, Tail(kws))

lex_keyword(s) == try_keywords(s, sorted_keywords)

RECURSIVE eat_whitespace(_)
eat_whitespace(s) ==
    IF s.source # <<>> /\ Head(s.source) \in {" ", TAB}
    THEN eat_whitespace(next_char(s))
    ELSE s

RECURSIVE count_digits(_)
\* num_digits of lex_number: the length of the run of digits heading the text
count_digits(src) ==
    IF src # <<>> /\ IsDigit(Head(src)) THEN 1 + count_digits(Tail(src)) ELSE 0

\* str::parse::<u32>().unwrap() of a run of digits: the value, or a panic
parse_u32(ds) ==
    LET v == FromDecimal(ds, <<>>)
    IN  IF FitsU32(v) THEN v ELSE PanicN

lex_number(s) ==
    LET num_digits == count_digits(s.source)
        after == next_chars(s, num_digits)
        v == parse_u32(SubSeq(s.source, 1, num_digits))
    IN  IF num_digits = 0 THEN [ts |-> s, tok |-> None]
        ELSE IF v = PanicN THEN [ts |-> after, tok |-> PanicTok]
        ELSE [ts |-> after, tok |-> Token("Number", v, <<>>, s.line, s.col)]

RECURSIVE comment_scan(_, _)
\* the while loop of lex_comment: [closed, idx, ts] when it ends
comment_scan(s, idx) ==
    IF s.source = <<>> THEN [closed |-> FALSE, idx |-> idx, ts |-> s]
    ELSE IF Head(s.source) = "%"
         THEN [closed |-> TRUE, idx |-> idx, ts |-> next_char(s)]
         ELSE comment_scan(next_char(s), idx + 1)

\* lex_comment that restores the source alone when the comment is not closed
lex_comment_keeps_position(s) ==
    IF peek_char(s) = "%"
    THEN LET scan == comment_scan(next_char(s), 0)
         IN  IF ~scan.closed
             THEN [ts |-> [scan.ts EXCEPT !.source = s.source], tok |-> None]
             ELSE [ts |-> scan.ts,
                   tok |-> Token("Comment", <<>>,
                                 trim(SubSeq(next_char(s).source, 1, scan.idx)),
                                 s.line, s.col)]
    ELSE [ts |-> s, tok |-> None]

lex_comment(s) ==
    IF peek_char(s) = "%"
    THEN LET line == s.line
             col == s.col
             source_before_comment == s.source
             beginning == next_char(s).source
             scan == comment_scan(next_char(s), 0)
         IN  IF ~scan.closed
             THEN [ts |-> [scan.ts EXCEPT !.source = source_before_comment,
                                          !.line = line, !.col = col],
                   tok |-> None]
             ELSE [ts |-> scan.ts,
                   tok |-> Token("Comment", <<>>, trim(SubSeq(beginning, 1, scan.idx)),
                                 line, col)]
    ELSE [ts |-> s, tok |-> None]

\* the for loop over the lexers, after a lexer gave t
lex_from_comment(t) == IF t.tok.kind # "None" THEN t ELSE lex_comment(t.ts)
lex_from_number(t) == IF t.tok.kind # "None" THEN t ELSE lex_from_comment(lex_number(t.ts))
lex_from_keyword(t) == IF t.tok.kind # "None" THEN t ELSE lex_from_number(lex_keyword(t.ts))

\* Iterator::next of TokenStream
next(s) ==
    IF s.peeked_token.kind # "None"
    THEN [ts |-> [s EXCEPT !.peeked_token = None], tok |-> s.peeked_token]
    ELSE lex_from_keyword(lex_symbol(eat_whitespace(s)))

\* peek, given what next gives when nothing is buffered
peek_store(n) == [ts |-> [n.ts EXCEPT !.peeked_token = n.tok], tok |-> n.tok]

peek(s) ==
    IF s.peeked_token.kind = "None" THEN peek_store(next(s))
    ELSE [ts |-> s, tok |-> s.peeked_token]

----------------------------------------------------------------------------
(* The instruction tree, src/src/lib.rs (the enum) and src/src/parse.rs    *)
(* (Skip).  An instruction is a record with the field op.                  *)

Stitches == {"Ch", "Sc", "Fpsc", "Bpsc", "Blsc", "Inc", "Flinc", "Blinc", "Dec"}

Stitch(op) == [op |-> op]
IntoMagicRing(i) == [op |-> "IntoMagicRing", inst |-> i]
Group(insts) == [op |-> "Group", insts |-> insts]
Repeat(i, times) == [op |-> "Repeat", inst |-> i, times |-> times]
Comment(s) == [op |-> "Comment", s |-> s]
Skip(n) == [op |-> "Skip", n |-> n]

----------------------------------------------------------------------------
(* The parser, src/src/parse.rs.  A parsing function yields [ts, r]: the   *)
(* stream it leaves and r, one of Ok(v), Err(loc, at) and Panicked.  The   *)
(* field at records which expression gave the location: "token" for a      *)
(* token's source_loc(), "stream" for ts.current_loc().                    *)

Ok(v) == [k |-> "Ok", v |-> v]
Err(loc, at) == [k |-> "Err", loc |-> loc, at |-> at]
Panicked == [k |-> "Panic"]

\* an abort raised while the stream s was read
Abort(s) == [ts |-> s, r |-> Panicked]

\* the second match of maybe_parse_suffix, on the peeked p2
suffix_in_mr(p2, inst) ==
    IF p2.tok.kind = "Panic" THEN Abort(p2.ts)
    ELSE IF p2.tok.kind = "InMr"
    THEN [ts |-> next(p2.ts).ts, r |-> Ok(IntoMagicRing(inst))]
    ELSE [ts |-> p2.ts, r |-> Ok(inst)]

\* the first match of maybe_parse_suffix, on the peeked p1
suffix_number(p1, inst) ==
    IF p1.tok.kind = "Panic" THEN Abort(p1.ts)
    ELSE suffix_in_mr(peek(IF p1.tok.kind = "Number" THEN next(p1.ts).ts ELSE p1.ts),
                      IF p1.tok.kind = "Number" THEN Repeat(inst, p1.tok.n) ELSE inst)

\* maybe_parse_suffix taking the suffixes in either order
suffix_either_order(p, inst) ==
    IF p.tok.kind = "Panic" THEN Abort(p.ts)
    ELSE IF p.tok.kind = "InMr"
    THEN suffix_number(peek(next(p.ts).ts), IntoMagicRing(inst))
    ELSE suffix_number(p, inst)

maybe_parse_suffix_any_order(s, inst) == suffix_either_order(peek(s), inst)

maybe_parse_suffix(s, inst) == suffix_number(peek(s), inst)

\* a Tch token at the head of an instruction: no rule of the grammar takes it
parse_tch(s, tok) == [ts |-> s, r |-> Err(source_loc(tok), "token")]

RECURSIVE parse_group_loop(_, _)
RECURSIVE parse_inst(_)

\* parse_group after an instruction is pushed, on the peeked p
group_after_inst(p, insts) ==
    IF p.tok.kind = "Panic" THEN Abort(p.ts)
    ELSE IF p.tok.kind = "Comma" THEN parse_group_loop(next(p.ts).ts, insts)
    ELSE [ts |-> p.ts, r |-> Ok(Group(insts))]

\* parse_group on what parse_inst gave: the ? and the push
group_push(i, insts) ==
    IF i.r.k # "Ok" THEN i
    ELSE group_after_inst(peek(i.ts), Append(insts, i.r.v))

\* the loop of parse_group, with the instructions pushed so far
parse_group_loop(s, insts) == group_push(parse_inst(s), insts)

parse_group(s) == parse_group_loop(s, <<>>)

\* the LBracket arm after the group: the match on ts.next()
inst_close_bracket(t, group) ==
    IF t.tok.kind = "Panic" THEN Abort(t.ts)
    ELSE IF t.tok.kind = "RBracket" THEN maybe_parse_suffix(t.ts, group)
    ELSE IF t.tok.kind # "None" THEN [ts |-> t.ts, r |-> Err(source_loc(t.tok), "token")]
    ELSE [ts |-> t.ts, r |-> Err(current_loc(t.ts), "stream")]

\* the LBracket arm, on what parse_group gave
inst_bracket(g) ==
    IF g.r.k # "Ok" THEN g ELSE inst_close_bracket(next(g.ts), g.r.v)

\* the Skip arm: the match on ts.next()
inst_skip(t) ==
    IF t.tok.kind = "Panic" THEN Abort(t.ts)
    ELSE IF t.tok.kind = "Number" THEN [ts |-> t.ts, r |-> Ok(Skip(t.tok.n))]
    ELSE IF t.tok.kind # "None" THEN [ts |-> t.ts, r |-> Err(source_loc(t.tok), "token")]
    ELSE [ts |-> t.ts, r |-> Err(current_loc(t.ts), "stream")]

\* parse_inst on its first token: n is what ts.next() gave
inst_match(n) ==
    IF n.tok.kind = "Panic" THEN Abort(n.ts)
    ELSE IF n.tok.kind = "None" THEN [ts |-> n.ts, r |-> Err(current_loc(n.ts), "stream")]
    ELSE IF n.tok.kind \in Stitches THEN maybe_parse_suffix(n.ts, Stitch(n.tok.kind))
    ELSE IF n.tok.kind = "LBracket" THEN inst_bracket(parse_group(n.ts))
    ELSE IF n.tok.kind = "Comment" THEN [ts |-> n.ts, r |-> Ok(Comment(n.tok.s))]
    ELSE IF n.tok.kind = "Skip" THEN inst_skip(next(n.ts))
    ELSE IF n.tok.kind = "Tch" THEN parse_tch(n.ts, n.tok)
    ELSE \* RBracket | Comma | Newline | Number(_) | InMr
         [ts |-> n.ts, r |-> Err(source_loc(n.tok), "token")]

parse_inst(s) == inst_match(next(s))

RECURSIVE skip_newlines(_)
\* while let Some(Newline) = ts.peek_kind() { ts.next(); } from the peeked p on:
\* the stream left and whether the lexer panicked
skip_newlines(p) ==
    IF p.tok.kind = "Panic" THEN [ts |-> p.ts, panicked |-> TRUE]
    ELSE IF p.tok.kind = "Newline" THEN skip_newlines(peek(next(p.ts).ts))
    ELSE [ts |-> p.ts, panicked |-> FALSE]

RECURSIVE parse_loop(_, _)

\* the end of the loop body, after the newlines are skipped
round_next(nl, rounds) ==
    IF nl.panicked THEN Abort(nl.ts) ELSE parse_loop(peek(nl.ts), rounds)

\* the loop body after parse_group, on the peeked q
round_end(q, rounds) ==
    IF q.tok.kind = "Panic" THEN Abort(q.ts)
    ELSE IF q.tok.kind # "Newline" /\ ~is_empty(q.ts)
    THEN [ts |-> q.ts, r |-> Err(current_loc(q.ts), "stream")]
    ELSE round_next(skip_newlines(q), rounds)

\* the loop body on what parse_group gave: the ? and the push
round_push(g, rounds) ==
    IF g.r.k # "Ok" THEN g ELSE round_end(peek(g.ts), Append(rounds, g.r.v))

\* the while ts.peek().is_some() loop of parse on the peeked p, with the
\* rounds pushed so far
parse_loop(p, rounds) ==
    IF p.tok.kind = "Panic" THEN Abort(p.ts)
    ELSE IF p.tok.kind = "None" THEN [ts |-> p.ts, r |-> Ok(rounds)]
    ELSE round_push(parse_group(p.ts), rounds)

parse(s) == round_next(skip_newlines(peek(s)), <<>>)

\* parse_rounds without the check that the stream is drained
rounds_result_unchecked(p) == IF p.r.k = "Panic" THEN Panicked ELSE p.r

\* what parse_rounds returns when parse left the stream and result p
rounds_result(p) ==
    IF p.r.k = "Panic" THEN Panicked
    ELSE IF is_empty(p.ts) THEN p.r
    ELSE Err(current_loc(p.ts), "stream")

\* [ts, res, result]: the stream left, what parse gave, what parse_rounds gives
rounds_of(p) == [ts |-> p.ts, res |-> p.r, result |-> rounds_result(p)]

parse_rounds(src) == rounds_of(parse(tokenize(src)))

----------------------------------------------------------------------------
(* Stitch counts, src/src/lib.rs.  build is the build profile: "debug"     *)
(* checks u32 arithmetic for overflow and panics, "release" wraps.  A      *)
(* count is a u32 or PanicN.                                               *)

Builds == {"debug", "release"}

\* a * b on u32
MulU32(a, b) ==
    IF a = PanicN \/ b = PanicN THEN PanicN
    ELSE LET exact == MulN(a, b)
         IN  IF FitsU32(exact) THEN exact
             ELSE IF build = "debug" THEN PanicN ELSE WrapU32(exact)

\* a + b on u32, the step of Iterator::sum
AddU32(a, b) ==
    IF a = PanicN \/ b = PanicN THEN PanicN
    ELSE LET exact == AddN(a, b)
         IN  IF FitsU32(exact) THEN exact
             ELSE IF build = "debug" THEN PanicN ELSE WrapU32(exact)

\* the stitches a Skip(n) consumes and creates
skip_input_count(n) == n
skip_output_count(n) == <<>>

RECURSIVE input_count(_)
RECURSIVE sum_input_count(_, _)

sum_input_count(insts, acc) ==
    IF insts = <<>> THEN acc
    ELSE sum_input_count(Tail(insts), AddU32(acc, input_count(Head(insts))))

\* input_count with an IntoMagicRing consuming what its instruction consumes
input_count_through_mr(i) ==
    IF i.op = "Ch" THEN <<>>
    ELSE IF i.op \in {"Sc", "Fpsc", "Bpsc", "Blsc"} THEN <<1>>
    ELSE IF i.op \in {"Inc", "Flinc", "Blinc"} THEN <<1>>
    ELSE IF i.op = "Dec" THEN <<2>>
    ELSE IF i.op = "IntoMagicRing" THEN input_count(i.inst)
    ELSE IF i.op = "Group" THEN sum_input_count(i.insts, <<>>)
    ELSE IF i.op = "Repeat" THEN MulU32(input_count(i.inst), i.times)
    ELSE IF i.op = "Skip" THEN skip_input_count(i.n)
    ELSE <<>>

input_count(i) ==
    IF i.op = "Ch" THEN <<>>
    ELSE IF i.op \in {"Sc", "Fpsc", "Bpsc", "Blsc"} THEN <<1>>
    ELSE IF i.op \in {"Inc", "Flinc", "Blinc"} THEN <<1>>
    ELSE IF i.op = "Dec" THEN <<2>>
    ELSE IF i.op = "IntoMagicRing" THEN <<>>
    ELSE IF i.op = "Group" THEN sum_input_count(i.insts, <<>>)
    ELSE IF i.op = "Repeat" THEN MulU32(input_count(i.inst), i.times)
    ELSE IF i.op = "Skip" THEN skip_input_count(i.n)
    ELSE \* Comment
         <<>>

RECURSIVE output_count(_)
RECURSIVE sum_output_count(_, _)

sum_output_count(insts, acc) ==
    IF insts = <<>> THEN acc
    ELSE sum_output_count(Tail(insts), AddU32(acc, output_count(Head(insts))))

output_count(i) ==
    IF i.op = "Ch" THEN <<1>>
    ELSE IF i.op \in {"Sc", "Fpsc", "Bpsc", "Blsc"} THEN <<1>>
    ELSE IF i.op \in {"Inc", "Flinc", "Blinc"} THEN <<2>>
    ELSE IF i.op = "Dec" THEN <<1>>
    ELSE IF i.op = "IntoMagicRing" THEN output_count(i.inst)
    ELSE IF i.op = "Group" THEN sum_output_count(i.insts, <<>>)
    ELSE IF i.op = "Repeat" THEN MulU32(output_count(i.inst), i.times)
    ELSE IF i.op = "Skip" THEN skip_output_count(i.n)
    ELSE \* Comment
         <<>>

----------------------------------------------------------------------------
(* Display for Instruction, src/src/lib.rs.                                *)

Lower(op) ==
    CASE op = "Ch" -> <<"c", "h">>
      [] op = "Sc" -> <<"s", "c">>
      [] op = "Fpsc" -> <<"f", "p", "s", "c">>
      [] op = "Bpsc" -> <<"b", "p", "s", "c">>
      [] op = "Blsc" -> <<"b", "l", "s", "c">>
      [] op = "Inc" -> <<"i", "n", "c">>
      [] op = "Flinc" -> <<"f", "l", "i", "n", "c">>
      [] op = "Blinc" -> <<"b", "l", "i", "n", "c">>
      [] op = "Dec" -> <<"d", "e", "c">>

InMrText == <<" ", "i", "n", " ", "m", "r">>

\* the text of a Skip(n)
display_skip(n) == <<"s", "k", "i", "p", " ">> \o ToDecimal(n)

RECURSIVE Display(_)
RECURSIVE display_rest(_)

\* the Group arm writing " {i}", the comma forgotten
display_rest_no_comma(insts) ==
    IF insts = <<>> THEN <<>>
    ELSE <<" ">> \o Display(Head(insts)) \o display_rest(Tail(insts))

\* the for loop of the Group arm: ", {i}" for each further instruction
display_rest(insts) ==
    IF insts = <<>> THEN <<>>
    ELSE <<",", " ">> \o Display(Head(insts)) \o display_rest(Tail(insts))

Display(i) ==
    IF i.op \in Stitches THEN Lower(i.op)
    ELSE IF i.op = "IntoMagicRing"
    THEN (IF i.inst.op = "Group"
          THEN <<"[">> \o Display(i.inst) \o <<"]">> \o InMrText
          ELSE Display(i.inst) \o InMrText)
    ELSE IF i.op = "Repeat"
    THEN (IF i.inst.op = "Group"
          THEN <<"[">> \o Display(i.inst) \o <<"]", " ">> \o ToDecimal(i.times)
          ELSE Display(i.inst) \o <<" ">> \o ToDecimal(i.times))
    ELSE IF i.op = "Group"
    THEN (IF i.insts = <<>> THEN <<>>
          ELSE Display(Head(i.insts)) \o display_rest(Tail(i.insts)))
    ELSE IF i.op = "Skip" THEN display_skip(i.n)
    ELSE \* Comment
         <<"%", " ">> \o i.s \o <<" ", "%">>

RECURSIVE render(_)
\* the rounds' Display texts joined by a newline
render(rounds) ==
    IF rounds = <<>> THEN <<>>
    ELSE IF Len(rounds) = 1 THEN Display(Head(rounds))
    ELSE Display(Head(rounds)) \o <<NL>> \o render(Tail(rounds))

----------------------------------------------------------------------------
(* The lint pass, src/src/lint.rs.  The index i of a round is zero-based   *)
(* as in the code: rounds.get(i) is the model's rounds[i + 1].             *)

MismatchedStitchCount(a_out, a_idx, b_in, b_idx) ==
    [lint |-> "MismatchedStitchCount",
     a_out |-> a_out, a_idx |-> a_idx, b_in |-> b_in, b_idx |-> b_idx]

NonzeroFirstRoundInput(actual_consumed) ==
    [lint |-> "NonzeroFirstRoundInput", actual_consumed |-> actual_consumed]

\* the test a_out == 0 && rounds[i].input_count() == 0 on the round a:
\* "continue" when it holds, "go on" when not, "Panic" when a count panics
a_skipped(rounds, i) ==
    LET a_out == output_count(rounds[i + 1])
    IN  IF a_out = PanicN THEN "Panic"
        ELSE IF a_out # <<>> THEN "go on"
        ELSE LET a_in == input_count(rounds[i + 1])
             IN  IF a_in = PanicN THEN "Panic"
                 ELSE IF a_in = <<>> THEN "continue" ELSE "go on"

RECURSIVE find_b(_, _, _)
\* the inner loop: [k |-> "break", b_in] with the b round's input count,
\* [k |-> "outer"] for break 'outer, or [k |-> "Panic"]
find_b(rounds, i, b_offset) ==
    IF i + b_offset >= Len(rounds) THEN [k |-> "outer"]
    ELSE LET possible_b == rounds[i + b_offset + 1]
             incount == input_count(possible_b)
         IN  IF incount = PanicN THEN [k |-> "Panic"]
             ELSE IF incount # <<>> THEN [k |-> "break", b_in |-> incount]
             ELSE IF output_count(possible_b) = PanicN THEN [k |-> "Panic"]
             ELSE IF output_count(possible_b) = <<>>
             THEN find_b(rounds, i, b_offset + 1)
             ELSE [k |-> "break", b_in |-> incount]

\* the finding pushed for the rounds a (at i) and b
mismatch_lint(a_out, b_in, i) == MismatchedStitchCount(a_out, i + 1, b_in, i + 2)

RECURSIVE mismatch_loop(_, _, _)
\* the 'outer loop from i on, with the findings pushed so far
mismatch_loop(rounds, i, ret) ==
    IF i >= Len(rounds) - 1 THEN Ok(ret)
    ELSE LET skip == a_skipped(rounds, i)
             a_out == output_count(rounds[i + 1])
             b == find_b(rounds, i, 1)
         IN  IF skip = "Panic" THEN Panicked
             ELSE IF skip = "continue" THEN mismatch_loop(rounds, i + 1, ret)
             ELSE IF b.k = "Panic" THEN Panicked
             ELSE IF b.k = "outer" THEN Ok(ret)
             ELSE IF a_out # b.b_in
             THEN mismatch_loop(rounds, i + 1, Append(ret, mismatch_lint(a_out, b.b_in, i)))
             ELSE mismatch_loop(rounds, i + 1, ret)

lint_mismatched_stitch_count(rounds) ==
    IF Len(rounds) < 2 THEN Ok(<<>>) ELSE mismatch_loop(rounds, 0, <<>>)

\* Option<Lint> as Ok of a sequence of at most one finding, or Panicked
lint_nonzero_first_round_input(rounds) ==
    IF rounds = <<>> THEN Ok(<<>>)
    ELSE LET cnt == input_count(rounds[1])
         IN  IF cnt = PanicN THEN Panicked
             ELSE IF cnt # <<>> THEN Ok(<<NonzeroFirstRoundInput(cnt)>>)
             ELSE Ok(<<>>)

lint_rounds(rounds) ==
    LET mm == lint_mismatched_stitch_count(rounds)
        l == lint_nonzero_first_round_input(rounds)
    IN  IF mm.k = "Panic" THEN Panicked
        ELSE IF l.k = "Panic" THEN Panicked
        ELSE Ok(mm.v \o l.v)

----------------------------------------------------------------------------
(* The inputs: source texts drawn from bounded sets.                       *)

\* pieces of source text: tokens, white space, a lone comment mark, a byte
\* no lexing rule matches, and a literal one above u32::MAX
ParseChunks ==
    { <<"s", "c">>,
      <<"s", "k", "i", "p">>,
      <<"i", "n", " ", "m", "r">>,
      <<",">>,
      <<"[">>,
      <<"]">>,
      <<"\n">>,
      <<" ">>,
      <<"2">>,
      <<"%">>,
      <<"?">>,
      <<"4", "2", "9", "4", "9", "6", "7", "2", "9", "6">> }

RECURSIVE ChunkTexts(_)
\* the texts made of at most n chunks
ChunkTexts(n) ==
    IF n = 0 THEN {<<>>}
    ELSE LET prev == ChunkTexts(n - 1)
         IN  prev \cup {p \o c : p \in prev, c \in ParseChunks}

ParseSources == ChunkTexts(MaxChunks)

\* one round each; the last two overflow a u32 (2^32 stitches and more)
LintLines ==
    { <<"s", "c", " ", "3">>,
      <<"%", " ", "c", " ", "%">>,
      <<"[", "i", "n", "c", ",", " ", "s", "c", "]", " ", "2">>,
      <<"c", "h", " ", "3">>,
      <<"s", "c", " ", "6", " ", "i", "n", " ", "m", "r">>,
      <<"s", "k", "i", "p", " ", "2", ",", " ", "s", "c">>,
      <<"s", "c", " ", "0">>,
      <<"[", "d", "e", "c", " ", "i", "n", " ", "m", "r", ",", " ", "i", "n", "c", "]", " ", "2">>,
      <<"[", "s", "c", " ", "6", "5", "5", "3", "6", "]", " ", "6", "5", "5", "3", "6">>,
      <<"s", "c", " ", "6", "5", "5", "3", "6", " ", "i", "n", " ", "m", "r", ",", " ", "c", "h", " ", "6", "5", "5", "3", "6", ",", " ", "[", "c", "h", " ", "6", "5", "5", "3", "5", "]", " ", "6", "5", "5", "3", "6">> }

RECURSIVE LineTexts(_)
\* the texts of 1..n lines
LineTexts(n) ==
    IF n = 0 THEN {}
    ELSE LET prev == LineTexts(n - 1)
         IN  LintLines \cup {p \o <<NL>> \o l : p \in prev, l \in LintLines}

LintSources == {<<>>} \cup LineTexts(MaxRounds)

\* instructions without brackets
Atoms ==
    { <<"s", "c", " ", "4", " ", "i", "n", " ", "m", "r">>,
      <<"i", "n", "c", " ", " ", "2">>,
      <<"%", "h", "i", "%">> }

\* what follows the first instruction of a group of two
Seconds ==
    { <<",", "s", "c">>,
      <<",", " ", "d", "e", "c", " ", "0", "2">> }

\* a group g in brackets, without and with a suffix
Wrapped(g) ==
    { <<"[">> \o g \o <<"]">>,
      <<"[">> \o g \o <<"]">> \o <<"2">>,
      <<"[", " ">> \o g \o <<" ", "]">> \o <<" ", "i", "n", " ", "m", "r">> }

RECURSIVE GroupTexts(_)
\* the groups of bracket nesting at most d: one instruction, or two
GroupTexts(d) ==
    LET insts == IF d = 0 THEN Atoms
                 ELSE Atoms \cup UNION {Wrapped(g) : g \in GroupTexts(d - 1)}
    IN  insts \cup {i \o a : i \in insts, a \in Seconds}

RoundTripSources ==
    GroupTexts(MaxDepth)
    \cup {a \o <<NL, NL>> \o b : a \in GroupTexts(0), b \in GroupTexts(0)}

\* pieces of source text for the lexer: keywords, blanks, a newline, a
\* number, a comment over two lines, symbols, a byte no rule matches, a lone
\* comment mark and a literal above u32::MAX
LexChunks ==
    { <<"s", "c">>,
      <<"i", "n", " ", "m", "r">>,
      <<" ">>,
      <<TAB>>,
      <<NL>>,
      <<"1", "2">>,
      <<"%", "a", NL, "b", "%">>,
      <<",">>,
      <<"[">>,
      <<"?">>,
      <<"%">>,
      <<" ", "4", "2", "9", "4", "9", "6", "7", "2", "9", "6">> }

RECURSIVE LexTexts(_)
\* the texts made of at most n of these pieces
LexTexts(n) ==
    IF n = 0 THEN {<<>>}
    ELSE LET prev == LexTexts(n - 1)
         IN  prev \cup {p \o c : p \in prev, c \in LexChunks}

LexSources == LexTexts(MaxLexChunks)

\* pieces of source text for the loops of the parser: what separates
\* instructions and rounds, what opens and closes a group, and what gives no
\* token
StepChunks ==
    { <<"s", "c">>,
      <<",">>,
      <<"[">>,
      <<"]">>,
      <<NL>>,
      <<" ", "2">>,
      <<"%", "c", "%">>,
      <<"%">>,
      <<"?">>,
      <<" ", "4", "2", "9", "4", "9", "6", "7", "2", "9", "6">> }

RECURSIVE StepTexts(_)
\* the texts made of at most n of these pieces
StepTexts(n) ==
    IF n = 0 THEN {<<>>}
    ELSE LET prev == StepTexts(n - 1)
         IN  prev \cup {p \o c : p \in prev, c \in StepChunks}

StepSources == StepTexts(MaxStepChunks)

\* every keyword, a space, and beginnings of keywords
KeywordChunks ==
    {keywords[i][1] : i \in 1..Len(keywords)}
    \cup { <<" ">>, <<"i", "n">>, <<"t">>, <<"c">> }

RECURSIVE KeywordTexts(_)
\* the texts made of at most n of these pieces
KeywordTexts(n) ==
    IF n = 0 THEN {<<>>}
    ELSE LET prev == KeywordTexts(n - 1)
         IN  prev \cup {p \o c : p \in prev, c \in KeywordChunks}

KeywordSources == KeywordTexts(MaxKeywords)

\* an instruction that takes a suffix: a stitch keyword or a bracketed group
SuffixHeads ==
    { <<"s", "c">>,
      <<"d", "e", "c">>,
      <<"[", "i", "n", "c", ",", " ", "s", "c", "]">>,
      <<"[", "[", "c", "h", "]", " ", "2", "]">> }

\* a suffix: a count, `in mr`, the largest u32 and the number after it
SuffixPieces ==
    { <<" ", "2">>,
      <<" ", "i", "n", " ", "m", "r">>,
      <<" ", "4", "2", "9", "4", "9", "6", "7", "2", "9", "5">>,
      <<" ", "4", "2", "9", "4", "9", "6", "7", "2", "9", "6">> }

RECURSIVE SuffixTexts(_)
\* an instruction followed by at most n suffixes
SuffixTexts(n) ==
    IF n = 0 THEN SuffixHeads
    ELSE LET prev == SuffixTexts(n - 1)
         IN  prev \cup {p \o c : p \in prev, c \in SuffixPieces}

SuffixSources == SuffixTexts(MaxSuffixes)

----------------------------------------------------------------------------
(* The state machine: a source is parsed (parse_rounds); parsed rounds     *)
(* are linted (lint_rounds), or rendered (Display, joined by newlines) and *)
(* the text parsed and rendered again.  A panic ends the run: pc becomes   *)
(* "aborted" and nothing was returned.                                     *)

NoResult == [k |-> "None"]

InitWith(sources) ==
    /\ source \in sources
    /\ build \in Builds
    /\ pc = "start"
    /\ ts = tokenize(source)
    /\ res = NoResult
    /\ result = NoResult
    /\ lints = NoResult
    /\ text = <<>>
    /\ result2 = NoResult
    /\ text2 = <<>>
    /\ collected = <<>>
    /\ stack = <<>>
    /\ steps = 0

Init == InitWith(ParseSources)

ParseRounds ==
    /\ pc = "start"
    /\ LET p == parse_rounds(source)
       IN  /\ ts' = p.ts
           /\ res' = p.res
           /\ result' = p.result
           /\ pc' = IF p.result.k = "Panic" THEN "aborted" ELSE "parsed"
    /\ UNCHANGED <<source, build, lints, text, result2, text2, collected, stack, steps>>

LintRounds ==
    /\ pc = "parsed"
    /\ result.k = "Ok"
    /\ lints' = lint_rounds(result.v)
    /\ pc' = IF lint_rounds(result.v).k = "Panic" THEN "aborted" ELSE "linted"
    /\ UNCHANGED <<source, build, ts, res, result, text, result2, text2, collected, stack, steps>>

Render ==
    /\ pc = "parsed"
    /\ result.k = "Ok"
    /\ text' = render(result.v)
    /\ pc' = "rendered"
    /\ UNCHANGED <<source, build, ts, res, result, lints, result2, text2, collected, stack, steps>>

Reparse ==
    /\ pc = "rendered"
    /\ LET p == parse_rounds(text)
       IN  /\ result2' = p.result
           /\ text2' = IF p.result.k = "Ok" THEN render(p.result.v) ELSE <<>>
    /\ pc' = "reparsed"
    /\ UNCHANGED <<source, build, ts, res, result, lints, text, collected, stack, steps>>

Next == ParseRounds \/ LintRounds \/ Render \/ Reparse

Spec == Init /\ [][Next]_vars

InitLint == InitWith(LintSources)

SpecLint == InitLint /\ [][Next]_vars

InitRoundTrip == InitWith(RoundTripSources)

SpecRoundTrip == InitRoundTrip /\ [][Next]_vars

\* A consumer of the token stream alone: it calls next and peek in any
\* order and collects the tokens next gives, until next gives None.
IterNext ==
    /\ pc \in {"start", "lexing"}
    /\ LET r == next(ts)
       IN  /\ ts' = r.ts
           /\ collected' = IF r.tok.kind \in {"None", "Panic"} THEN collected
                           ELSE Append(collected, r.tok)
           /\ pc' = IF r.tok.kind = "Panic" THEN "aborted"
                    ELSE IF r.tok.kind = "None" THEN "lexed"
                    ELSE "lexing"
    /\ UNCHANGED <<source, build, res, result, lints, text, result2, text2, stack, steps>>

IterPeek ==
    /\ pc \in {"start", "lexing"}
    /\ ts.peeked_token.kind = "None"
    /\ LET r == peek(ts)
       IN  /\ ts' = r.ts
           /\ pc' = IF r.tok.kind = "Panic" THEN "aborted" ELSE "lexing"
    /\ UNCHANGED <<source, build, res, result, lints, text, result2, text2, collected, stack, steps>>

NextLex == IterNext \/ IterPeek

InitLex == InitWith(LexSources)

SpecLex == InitLex /\ [][NextLex]_vars

(* parse_rounds step by step: one action per loop iteration, call and     *)
(* return of parse, parse_group and parse_inst.  stack holds, from the     *)
(* bottom, the rounds parse has pushed and, for every parse_group that is  *)
(* running or has just returned, the instructions it has pushed; res is   *)
(* the value parse returned.                                               *)

Frame(insts) == [insts |-> insts]

\* every step is counted, up to MaxSteps
Tick == steps < MaxSteps /\ steps' = steps + 1

Top == stack[Len(stack)]

\* the stack with v pushed onto the vector of its top frame
PushInst(stk, v) == [stk EXCEPT ![Len(stk)] = Frame(Append(@.insts, v))]

\* the stack without its top frame
Pop(stk) == SubSeq(stk, 1, Len(stk) - 1)

\* a panic: the run ends
StepAbort(s) ==
    /\ ts' = s
    /\ pc' = "aborted"
    /\ UNCHANGED <<res, stack>>

\* parse returns r
StepParseReturns(s, r) ==
    /\ ts' = s
    /\ res' = r
    /\ pc' = "returned"
    /\ UNCHANGED stack

\* parse_rounds calls tokenize and parse
StepCall ==
    /\ pc = "start"
    /\ stack' = <<Frame(<<>>)>>
    /\ pc' = "skip1"
    /\ Tick
    /\ UNCHANGED <<source, build, ts, res, result, lints, text, result2, text2, collected>>

\* a newline loop that peeks at the Newline and leaves it in the stream
newline_iteration_keeps_token(p) == p.ts

\* the body of a newline loop, on the peeked Newline p: ts.next()
newline_iteration(p) == next(p.ts).ts

\* one test, and one iteration if it passes, of a newline loop of parse
StepSkipNewline ==
    /\ pc \in {"skip1", "skip2"}
    /\ LET p == peek(ts)
       IN  IF p.tok.kind = "Panic" THEN StepAbort(p.ts)
           ELSE /\ ts' = IF p.tok.kind = "Newline" THEN newline_iteration(p) ELSE p.ts
                /\ pc' = IF p.tok.kind = "Newline" THEN pc ELSE "while"
                /\ UNCHANGED <<res, stack>>
    /\ Tick
    /\ UNCHANGED <<source, build, result, lints, text, result2, text2, collected>>

\* the test of the round loop: parse returns the rounds, or calls parse_group
StepWhile ==
    /\ pc = "while"
    /\ LET p == peek(ts)
       IN  IF p.tok.kind = "Panic" THEN StepAbort(p.ts)
           ELSE IF p.tok.kind = "None" THEN StepParseReturns(p.ts, Ok(stack[1].insts))
           ELSE /\ ts' = p.ts
                /\ stack' = Append(stack, Frame(<<>>))
                /\ pc' = "inst"
                /\ UNCHANGED res
    /\ Tick
    /\ UNCHANGED <<source, build, result, lints, text, result2, text2, collected>>

\* parse_inst, called by an iteration of the loop of parse_group: up to its
\* return, or to its call of parse_group at a [
StepInst ==
    /\ pc = "inst"
    /\ LET n == next(ts)
       IN  IF n.tok.kind = "LBracket"
           THEN /\ ts' = n.ts
                /\ stack' = Append(stack, Frame(<<>>))
                /\ pc' = "inst"
                /\ UNCHANGED res
           ELSE LET i == inst_match(n)
                IN  IF i.r.k = "Panic" THEN StepAbort(i.ts)
                    ELSE IF i.r.k = "Err" THEN StepParseReturns(i.ts, i.r)
                    ELSE /\ ts' = i.ts
                         /\ stack' = PushInst(stack, i.r.v)
                         /\ pc' = "pushed"
                         /\ UNCHANGED res
    /\ Tick
    /\ UNCHANGED <<source, build, result, lints, text, result2, text2, collected>>

\* parse_group after the push: the next iteration at a comma, or the return
\* of the group to parse_inst or to parse
StepGroupAfter ==
    /\ pc = "pushed"
    /\ LET p == peek(ts)
       IN  IF p.tok.kind = "Panic" THEN StepAbort(p.ts)
           ELSE IF p.tok.kind = "Comma"
           THEN /\ ts' = next(p.ts).ts
                /\ pc' = "inst"
                /\ UNCHANGED <<res, stack>>
           ELSE /\ ts' = p.ts
                /\ IF Len(stack) = 2
                   THEN /\ stack' = PushInst(Pop(stack), Group(Top.insts))
                        /\ pc' = "round_end"
                   ELSE /\ stack' = stack
                        /\ pc' = "close"
                /\ UNCHANGED res
    /\ Tick
    /\ UNCHANGED <<source, build, result, lints, text, result2, text2, collected>>

\* the LBracket arm of parse_inst after parse_group returned the group of
\* the top frame
StepClose ==
    /\ pc = "close"
    /\ LET i == inst_close_bracket(next(ts), Group(Top.insts))
       IN  IF i.r.k = "Panic" THEN StepAbort(i.ts)
           ELSE IF i.r.k = "Err" THEN StepParseReturns(i.ts, i.r)
           ELSE /\ ts' = i.ts
                /\ stack' = PushInst(Pop(stack), i.r.v)
                /\ pc' = "pushed"
                /\ UNCHANGED res
    /\ Tick
    /\ UNCHANGED <<source, build, result, lints, text, result2, text2, collected>>

\* the round loop after the push of a round: the test of what follows it
StepRoundEnd ==
    /\ pc = "round_end"
    /\ LET q == peek(ts)
       IN  IF q.tok.kind = "Panic" THEN StepAbort(q.ts)
           ELSE IF q.tok.kind # "Newline" /\ ~is_empty(q.ts)
           THEN StepParseReturns(q.ts, Err(current_loc(q.ts), "stream"))
           ELSE /\ ts' = q.ts
                /\ pc' = "skip2"
                /\ UNCHANGED <<res, stack>>
    /\ Tick
    /\ UNCHANGED <<source, build, result, lints, text, result2, text2, collected>>

\* parse_rounds after parse returned
StepReturn ==
    /\ pc = "returned"
    /\ result' = rounds_result([ts |-> ts, r |-> res])
    /\ pc' = "parsed"
    /\ Tick
    /\ UNCHANGED <<source, build, ts, res, lints, text, result2, text2, collected, stack>>

NextSteps ==
    \/ StepCall
    \/ StepSkipNewline
    \/ StepWhile
    \/ StepInst
    \/ StepGroupAfter
    \/ StepClose
    \/ StepRoundEnd
    \/ StepReturn

InitSteps == InitWith(StepSources)

\* parse_rounds has been called or can be, and has not ended
Running == pc \notin {"parsed", "aborted"}

\* a step of the running program
Run == Running /\ Tick

\* the program runs on: while it has not ended its next step is taken
SpecSteps == InitSteps /\ [][NextSteps]_vars /\ WF_steps(Run)

InitKeywords == InitWith(KeywordSources)

SpecKeywords == InitKeywords /\ [][NextLex]_vars

InitSuffix == InitWith(SuffixSources)

SpecSuffix == InitSuffix /\ [][Next]_vars

----------------------------------------------------------------------------
(* What the claims speak of.                                               *)

\* the rounds parse_rounds returned
rounds == result.v

\* the bytes of the source the stream has consumed
Consumed == Len(trim_end(source)) - Len(ts.source)

\* the 1-based (line, col) of the byte after the first k bytes of src, by
\* counting: a newline among them starts a line
NewlinesIn(src, k) == {i \in 1..k : src[i] = NL}

PosOf(src, k) ==
    LET nls == NewlinesIn(src, k)
        last == IF nls = {} THEN 0 ELSE CHOOSE i \in nls : \A j \in nls : j <= i
    IN  <<1 + Cardinality(nls), k - last + 1>>

RECURSIVE SubtreeSeq(_)
RECURSIVE SubtreesOfAll(_)
\* an instruction and all the instructions inside it
SubtreeSeq(t) ==
    <<t>> \o (IF t.op \in {"IntoMagicRing", "Repeat"} THEN SubtreeSeq(t.inst)
              ELSE IF t.op = "Group" THEN SubtreesOfAll(t.insts)
              ELSE <<>>)

SubtreesOfAll(ts_) ==
    IF ts_ = <<>> THEN <<>> ELSE SubtreeSeq(Head(ts_)) \o SubtreesOfAll(Tail(ts_))

\* every instruction of the parsed rounds
Parsed == SubtreesOfAll(rounds)

Idx(seq) == 1..Len(seq)

----------------------------------------------------------------------------
(* C1 *)

\* C1: when parsing fails on an unexpected token (a token that cannot start
\* an instruction, a token other than ] where ] is required, a token other
\* than a number after skip), parse_rounds returns Err with the position of
\* that token, whatever follows the token.
C1_UnexpectedTokenLocated ==
    (pc = "parsed" /\ res.k = "Err" /\ res.at = "token")
        => (result.k = "Err" /\ result.loc = res.loc)

----------------------------------------------------------------------------
(* C2, C3, C4: the lint pass *)

\* lint_rounds was called on parsed rounds: it returned, or the run aborted
LintCalled == pc \in {"linted", "aborted"} /\ result.k = "Ok"

Mismatches == {i \in Idx(lints.v) : lints.v[i].lint = "MismatchedStitchCount"}
FirstRoundLints == {i \in Idx(lints.v) : lints.v[i].lint = "NonzeroFirstRoundInput"}

\* a round of 0 in and 0 out
Decorative(r) == input_count(r) = <<>> /\ output_count(r) = <<>>

\* the nearest round after a that is not decorative, 0 if there is none
NextReal(a) ==
    LET later == {j \in Idx(rounds) : j > a /\ ~Decorative(rounds[j])}
    IN  IF later = {} THEN 0 ELSE CHOOSE j \in later : \A k \in later : j <= k

\* C2: every MismatchedStitchCount finding names, one-based, the two rounds
\* whose counts it reports: rounds[a_idx] produces a_out and rounds[b_idx]
\* consumes b_in, also with decorative rounds between the two.
C2_MismatchNamesComparedRounds ==
    pc = "linted"
        => \A i \in Mismatches :
              LET l == lints.v[i]
              IN  /\ l.a_idx \in Idx(rounds)
                  /\ l.b_idx \in Idx(rounds)
                  /\ output_count(rounds[l.a_idx]) = l.a_out
                  /\ input_count(rounds[l.b_idx]) = l.b_in

\* the rounds a for which a mismatch is due
MismatchDue ==
    {a \in Idx(rounds) :
        /\ ~Decorative(rounds[a])
        /\ NextReal(a) # 0
        /\ output_count(rounds[a]) # input_count(rounds[NextReal(a)])}

\* C3: the findings of lint_rounds hold a MismatchedStitchCount for a round a
\* exactly when a is not decorative, a later round that is not decorative
\* exists, and a's output count differs from the input count of the nearest
\* such round; there is one finding per such a, in the order of the rounds,
\* with those two counts.  Decorative rounds between never cause a finding.
C3_MismatchExactlyWhenDue ==
    LintCalled
        => /\ lints.k = "Ok"
           /\ {lints.v[i].a_idx : i \in Mismatches} = MismatchDue
           /\ Cardinality(Mismatches) = Cardinality(MismatchDue)
           /\ \A i \in Mismatches :
                 /\ lints.v[i].a_out = output_count(rounds[lints.v[i].a_idx])
                 /\ lints.v[i].b_in = input_count(rounds[NextReal(lints.v[i].a_idx)])
           /\ \A i, j \in Mismatches : i < j => lints.v[i].a_idx < lints.v[j].a_idx

\* C4: lint_rounds returns a NonzeroFirstRoundInput finding if and only if
\* there is a first round and its input count is not zero; the finding holds
\* that count, there is at most one, and it is the last finding of the list,
\* after every mismatch finding.
C4_FirstRoundFinding ==
    LintCalled
        => /\ lints.k = "Ok"
           /\ (FirstRoundLints # {}) <=> (rounds # <<>> /\ input_count(rounds[1]) # <<>>)
           /\ Cardinality(FirstRoundLints) <= 1
           /\ \A i \in FirstRoundLints :
                 /\ lints.v[i].actual_consumed = input_count(rounds[1])
                 /\ i = Len(lints.v)
                 /\ \A j \in Mismatches : j < i

----------------------------------------------------------------------------
(* C5 *)

RECURSIVE DigitsBefore(_, _)
\* the length of the run of digits that ends src's first k bytes
DigitsBefore(src, k) ==
    IF k > 0 /\ IsDigit(src[k]) THEN 1 + DigitsBefore(src, k - 1) ELSE 0

\* the stream has just consumed a run of digits whose value is above u32::MAX
AfterOverflowingLiteral ==
    LET n == DigitsBefore(source, Consumed)
    IN  /\ n > 0
        /\ ts.peeked_token.kind = "None"
        /\ ~FitsU32(FromDecimal(SubSeq(source, Consumed - n + 1, Consumed), <<>>))

\* C5: a run of digits whose value is above u32::MAX makes parse_rounds fail
\* with Err at the first digit of the run: no abort, no wrapped or saturated
\* value.
C5_OverflowingLiteralIsParseError ==
    (pc \in {"parsed", "aborted"} /\ AfterOverflowingLiteral)
        => /\ pc = "parsed"
           /\ result.k = "Err"
           /\ result.loc = PosOf(source, Consumed - DigitsBefore(source, Consumed))

----------------------------------------------------------------------------
(* C6, C7: the stitch counts *)

RECURSIVE ExactSum(_)
\* the exact sum of a sequence of numbers
ExactSum(ns) == IF ns = <<>> THEN <<>> ELSE AddN(Head(ns), ExactSum(Tail(ns)))

NoPanicIn(ns) == \A i \in Idx(ns) : ns[i] # PanicN

OutputCounts(insts) == [i \in Idx(insts) |-> output_count(insts[i])]
InputCounts(insts) == [i \in Idx(insts) |-> input_count(insts[i])]

\* C6: in every parsed tree, the counts of Repeat(i, n) are n times the
\* counts of i and the counts of Group(xs) are the sums of the counts of
\* the xs, as exact integers: no count is wrapped modulo 2^32 (or missing).
C6_CountsAreExact ==
    (pc = "parsed" /\ result.k = "Ok")
        => \A k \in Idx(Parsed) :
              LET t == Parsed[k]
              IN  /\ output_count(t) # PanicN
                  /\ input_count(t) # PanicN
                  /\ t.op = "Repeat"
                        => /\ output_count(t) = MulN(t.times, output_count(t.inst))
                           /\ input_count(t) = MulN(t.times, input_count(t.inst))
                  /\ t.op = "Group"
                        => /\ NoPanicIn(OutputCounts(t.insts))
                           /\ NoPanicIn(InputCounts(t.insts))
                           /\ output_count(t) = ExactSum(OutputCounts(t.insts))
                           /\ input_count(t) = ExactSum(InputCounts(t.insts))

RECURSIVE SumInputsOutsideMr(_, _)
\* the u32 sum of the input counts of the instructions that are not an
\* IntoMagicRing
SumInputsOutsideMr(insts, acc) ==
    IF insts = <<>> THEN acc
    ELSE SumInputsOutsideMr(Tail(insts),
             IF Head(insts).op = "IntoMagicRing" THEN acc
             ELSE AddU32(acc, input_count(Head(insts))))

OnlyMr(insts) == \A i \in Idx(insts) : insts[i].op = "IntoMagicRing"

\* C7: an IntoMagicRing(i) consumes 0 stitches and creates what i creates;
\* so a Group counts nothing consumed for its IntoMagicRing members, and a
\* Group of such members only, and a Repeat of it, consume 0.
C7_MagicRingConsumesNothing ==
    (pc = "parsed" /\ result.k = "Ok")
        => \A k \in Idx(Parsed) :
              LET t == Parsed[k]
              IN  /\ t.op = "IntoMagicRing"
                        => /\ input_count(t) = <<>>
                           /\ output_count(t) = output_count(t.inst)
                  /\ t.op = "Group"
                        => /\ input_count(t) = SumInputsOutsideMr(t.insts, <<>>)
                           /\ OnlyMr(t.insts) => input_count(t) = <<>>
                  /\ (t.op = "Repeat" /\ t.inst.op = "Group" /\ OnlyMr(t.inst.insts))
                        => input_count(t) = <<>>

\* an IntoMagicRing of an instruction that consumes stitches, inside a group
\* that is repeated
C7_Witness ==
    /\ pc = "parsed" /\ result.k = "Ok"
    /\ \E k \in Idx(Parsed) :
          LET t == Parsed[k]
          IN  /\ t.op = "Repeat" /\ t.inst.op = "Group"
              /\ \E j \in Idx(t.inst.insts) :
                    /\ t.inst.insts[j].op = "IntoMagicRing"
                    /\ input_count(t.inst.insts[j].inst) # <<>>
                    /\ input_count(t.inst.insts[j]) = <<>>
              /\ input_count(t) # <<>>

----------------------------------------------------------------------------
(* C8: the round trip *)

\* C8: the text rendered from an accepted source (each round's Display,
\* joined by newlines) is accepted by parse_rounds too, and rendering that
\* second parse gives the same text again.
C8_RoundTripIdempotent ==
    pc = "reparsed" => (result2.k = "Ok" /\ text2 = text)

Has(txt, c) == \E i \in Idx(txt) : txt[i] = c

\* a rendering that differs from its source, holds a bracketed group, a
\* comment and a repeat count written with a leading zero in the source,
\* and parses to another tree than the source did
C8_Witness ==
    /\ pc = "reparsed"
    /\ text # trim_end(source)
    /\ Has(text, "[") /\ Has(text, "%") /\ Has(source, "0")
    /\ result2.k = "Ok" /\ result2.v # result.v
    /\ text2 = text

----------------------------------------------------------------------------
(* C9, C10: what the lexer cannot lex *)

\* the stream stands at a % that no later % closes
AtUnterminatedComment(s) ==
    /\ s.peeked_token.kind = "None"
    /\ s.source # <<>>
    /\ Head(s.source) = "%"
    /\ \A i \in 2..Len(s.source) : s.source[i] # "%"

\* C9: at a % with no closing % before the end of input lex_comment gives
\* no token and leaves the stream's source, line and col as they were before
\* the %, and parse_rounds fails with the position of that %, wherever the
\* % stands in the source.
C9_UnterminatedCommentLocated ==
    (pc = "parsed" /\ AtUnterminatedComment(ts))
        => /\ lex_comment(ts) = [ts |-> ts, tok |-> None]
           /\ result.k = "Err"
           /\ result.loc = PosOf(source, Consumed)

\* an unterminated comment with text in it, on a later line, after tokens
\* the parser consumed
C9_Witness ==
    /\ pc = "parsed" /\ AtUnterminatedComment(ts)
    /\ Len(ts.source) > 1
    /\ PosOf(source, Consumed)[1] > 1
    /\ PosOf(source, Consumed)[2] > 1

\* the stream stands at a byte that starts no symbol, keyword, number or
\* comment and is no space or tab
AtUnmatchedByte(s) ==
    /\ s.peeked_token.kind = "None"
    /\ s.source # <<>>
    /\ Head(s.source) \notin {" ", TAB, NL, "[", "]", ",", "%"}
    /\ ~IsDigit(Head(s.source))
    /\ \A i \in Idx(keywords) : ~starts_with(s.source, keywords[i][1])

\* C10: parse_rounds returns Ok only with the stream drained (no source
\* byte left, no token buffered); at a byte no lexing rule matches the lexer
\* gives no token and leaves the byte, the stream is not empty, and
\* parse_rounds fails with the position of that byte.
C10_DrainedOrLocated ==
    pc = "parsed"
        => /\ result.k = "Ok" => (ts.source = <<>> /\ ts.peeked_token.kind = "None")
           /\ AtUnmatchedByte(ts)
                 => /\ next(ts) = [ts |-> ts, tok |-> None]
                    /\ ~is_empty(ts)
                    /\ result.k = "Err"
                    /\ result.loc = PosOf(source, Consumed)

\* parse returned rounds, and parse_rounds fails at the byte left on a later
\* line
C10_Witness ==
    /\ pc = "parsed" /\ AtUnmatchedByte(ts)
    /\ res.k = "Ok" /\ res.v # <<>>
    /\ result.k = "Err" /\ result.loc[1] > 1

----------------------------------------------------------------------------
(* C11: the order of the suffixes *)

RECURSIVE lex_all(_, _)
\* the tokens next gives one after another, each with the number of source
\* bytes left after it; the list ends with a Panic token if lexing aborts
lex_all_step(r, acc) ==
    IF r.tok.kind = "None" THEN acc
    ELSE IF r.tok.kind = "Panic" THEN Append(acc, [tok |-> r.tok, left |-> 0])
    ELSE lex_all(r.ts, Append(acc, [tok |-> r.tok, left |-> Len(r.ts.source)]))

lex_all(s, acc) == lex_all_step(next(s), acc)

\* the tokens of the source
Tokens == lex_all(tokenize(source), <<>>)

RECURSIVE CloseAt(_, _, _)
\* the index of the ] that closes the [ at the head of toks, 0 if none does
CloseAt(toks, i, depth) ==
    IF i > Len(toks) THEN 0
    ELSE IF toks[i].tok.kind = "LBracket" THEN CloseAt(toks, i + 1, depth + 1)
    ELSE IF toks[i].tok.kind = "RBracket"
    THEN IF depth = 1 THEN i ELSE CloseAt(toks, i + 1, depth - 1)
    ELSE CloseAt(toks, i + 1, depth)

\* the index of the last token of the instruction X the source starts with,
\* a stitch keyword or a bracketed group; 0 if it starts with neither
HeadEnd ==
    IF Tokens = <<>> THEN 0
    ELSE IF Tokens[1].tok.kind \in Stitches THEN 1
    ELSE IF Tokens[1].tok.kind = "LBracket" THEN CloseAt(Tokens, 1, 0)
    ELSE 0

\* X parsed on its own
HeadParse ==
    parse_inst(tokenize(SubSeq(trim_end(source), 1,
                               Len(trim_end(source)) - Tokens[HeadEnd].left)))

\* the source starts with an instruction X that parses on its own
HasHead == HeadEnd > 0 /\ HeadParse.r.k = "Ok" /\ is_empty(HeadParse.ts)

\* the kinds of the tokens after X
SuffixKinds == [i \in 1..(Len(Tokens) - HeadEnd) |-> Tokens[HeadEnd + i].tok.kind]

\* the tokens are the whole source: no byte is left that gives no token
Lexed == Tokens # <<>> /\ Tokens[Len(Tokens)].left = 0

\* the round that holds the one instruction i
OneRound(i) == Ok(<<Group(<<i>>)>>)

\* C11: after a stitch keyword or a bracketed group X, a Number n wraps X in
\* Repeat(X, n) and an `in mr` after that wraps the result in IntoMagicRing,
\* so a source `X n in mr` parses to IntoMagicRing(Repeat(X, n)); `X in mr n`
\* and `X n m` are rejected with a parse error, whatever follows them.
C11_SuffixOrderFixed ==
    (pc \in {"parsed", "aborted"} /\ HasHead)
        => LET X == HeadParse.r.v
               k == SuffixKinds
               n == Tokens[HeadEnd + 1].tok.n
           IN  /\ (Lexed /\ k = <<"Number">>) => result = OneRound(Repeat(X, n))
               /\ (Lexed /\ k = <<"InMr">>) => result = OneRound(IntoMagicRing(X))
               /\ (Lexed /\ k = <<"Number", "InMr">>)
                     => result = OneRound(IntoMagicRing(Repeat(X, n)))
               /\ (Len(k) >= 2 /\ k[1] = "InMr" /\ k[2] = "Number")
                     => (pc = "parsed" /\ result.k = "Err")
               /\ (Len(k) >= 2 /\ k[1] = "Number" /\ k[2] = "Number")
                     => (pc = "parsed" /\ result.k = "Err")

\* a bracketed group followed by `in mr` and then a count was rejected
C11_Witness ==
    /\ pc = "parsed" /\ HasHead
    /\ Tokens[1].tok.kind = "LBracket"
    /\ SuffixKinds = <<"InMr", "Number">>
    /\ result.k = "Err"

----------------------------------------------------------------------------
(* C12: the positions of the tokens *)

\* the source the stream reads
Trimmed == trim_end(source)

RECURSIVE Blanks(_)
\* the number of spaces and tabs that follow the first k bytes
Blanks(k) ==
    IF k < Len(Trimmed) /\ Trimmed[k + 1] \in {" ", TAB} THEN 1 + Blanks(k + 1) ELSE 0

RECURSIVE DigitRun(_)
\* the number of digits that follow the first k bytes
DigitRun(k) ==
    IF k < Len(Trimmed) /\ IsDigit(Trimmed[k + 1]) THEN 1 + DigitRun(k + 1) ELSE 0

\* how a token of one byte is written
SymbolOf(kind) ==
    CASE kind = "Newline" -> NL
      [] kind = "LBracket" -> "["
      [] kind = "RBracket" -> "]"
      [] kind = "Comma" -> ","

\* how a keyword token is written
KeywordOf(kind) == keywords[CHOOSE i \in Idx(keywords) : keywords[i][2] = kind][1]

\* the comment marks after the one that follows the first k bytes
ClosingMarks(k) == {j \in (k + 2)..Len(Trimmed) : Trimmed[j] = "%"}

\* the number of bytes that spell the token t after the first k bytes of the
\* source, 0 if the source does not spell t there
Spelled(t, k) ==
    IF k >= Len(Trimmed) THEN 0
    ELSE IF t.kind \in {"Newline", "LBracket", "RBracket", "Comma"}
    THEN IF Trimmed[k + 1] = SymbolOf(t.kind) THEN 1 ELSE 0
    ELSE IF t.kind = "Number" THEN DigitRun(k)
    ELSE IF t.kind = "Comment"
    THEN IF Trimmed[k + 1] = "%" /\ ClosingMarks(k) # {}
         THEN (CHOOSE j \in ClosingMarks(k) : \A i \in ClosingMarks(k) : j <= i) - k
         ELSE 0
    ELSE IF starts_with(SubSeq(Trimmed, k + 1, Len(Trimmed)), KeywordOf(t.kind))
    THEN Len(KeywordOf(t.kind))
    ELSE 0

RECURSIVE Placed(_, _, _)
\* the tokens toks[i..] are written in the source one after the other from
\* byte from on, with only spaces and tabs before each, and each records the
\* (line, col) of its first byte
Placed(toks, i, from) ==
    IF i > Len(toks) THEN TRUE
    ELSE LET k == from + Blanks(from)
         IN  /\ Spelled(toks[i], k) > 0
             /\ source_loc(toks[i]) = PosOf(Trimmed, k)
             /\ Placed(toks, i + 1, k + Spelled(toks[i], k))

\* the tokens the stream has produced: those next gave, and the buffered one
Produced ==
    collected \o (IF ts.peeked_token.kind \in {"None", "Panic"} THEN <<>>
                 ELSE <<ts.peeked_token>>)

\* C12: after any sequence of next and peek calls every token the stream
\* produced records the 1-based (line, col) of its first byte in the source,
\* counted from the text (a newline starts a line, any other byte is a
\* column), also after skipped spaces and tabs and after a comment over two
\* lines; and the stream's own line and col are those of the next byte.
C12_TokensRecordFirstByte ==
    /\ Placed(Produced, 1, 0)
    /\ pc # "aborted" => <<ts.line, ts.col>> = PosOf(Trimmed, Consumed)

\* a comment over two lines was collected, and a token that follows blanks on
\* the second line is buffered by peek
C12_Witness ==
    /\ pc = "lexing"
    /\ Len(collected) = 1 /\ collected[1].kind = "Comment" /\ Has(collected[1].s, NL)
    /\ ts.peeked_token.kind = "Sc"
    /\ ts.peeked_token.line = 2 /\ ts.peeked_token.col = 4

----------------------------------------------------------------------------
(* C13: the keywords *)

\* the scan position of the stream: after the spaces and tabs
ScanPos == eat_whitespace(ts)

\* the keywords that are a prefix of the input at the scan position
Matching == {i \in Idx(keywords) : starts_with(ScanPos.source, keywords[i][1])}

\* a longest of them
Longest ==
    CHOOSE i \in Matching :
        \A j \in Matching : Len(keywords[i][1]) >= Len(keywords[j][1])

\* C13: at a scan position where some keyword is a prefix of the input left,
\* lex_keyword gives the token of the longest such keyword, at that position,
\* and consumes the bytes of that keyword and no more; next gives that token;
\* and `tch` is lexed as Tch.
C13_LongestKeyword ==
    (pc \in {"start", "lexing"} /\ ts.peeked_token.kind = "None" /\ Matching # {})
        => LET w == keywords[Longest]
               r == lex_keyword(ScanPos)
           IN  /\ r.tok = Token(w[2], <<>>, <<>>, ScanPos.line, ScanPos.col)
               /\ r.ts.source = SubSeq(ScanPos.source, Len(w[1]) + 1, Len(ScanPos.source))
               /\ r.ts.line = ScanPos.line
               /\ r.ts.col = ScanPos.col + Len(w[1])
               /\ next(ts) = r
               /\ starts_with(ScanPos.source, <<"t", "c", "h">>) => r.tok.kind = "Tch"

\* a Tch was collected and the stream stands, after a space, at `in mr`
C13_Witness ==
    /\ pc = "lexing" /\ ts.peeked_token.kind = "None"
    /\ Len(collected) = 1 /\ collected[1].kind = "Tch"
    /\ ScanPos # ts
    /\ Matching # {} /\ keywords[Longest][2] = "InMr"

----------------------------------------------------------------------------
(* C14: termination *)

\* the number of tokens the stream s has yet to give (an abort of the lexer
\* counts as one)
Remaining(s) == Len(lex_all(s, <<>>))

\* parse_rounds is over: it returned, or the run aborted
Ended == pc \in {"parsed", "aborted"}

\* a step that is an iteration of a newline loop takes exactly one token, and
\* a call of parse_inst, with which every iteration of the loop of
\* parse_group and so every iteration of the round loop begins, takes at
\* least one token unless it ends parse
IterationConsumes ==
    /\ (pc \in {"skip1", "skip2"} /\ pc' = pc) => Remaining(ts') = Remaining(ts) - 1
    /\ (pc = "inst" /\ pc' \notin {"returned", "aborted"}) => Remaining(ts') < Remaining(ts)
    /\ (pc = "while" /\ pc' = "inst") => Remaining(ts) > 0

\* when the lexer gives no token, the step ends parse or leaves the loop
NoTokenEndsLoop ==
    (pc \in {"skip1", "skip2", "while", "inst", "pushed", "close", "round_end"}
     /\ Remaining(ts) = 0)
        => \/ pc' \in {"returned", "aborted"}
           \/ pc \in {"skip1", "skip2"} /\ pc' = "while"
           \/ pc = "pushed" /\ pc' \in {"round_end", "close"}
           \/ pc = "round_end" /\ pc' = "skip2"

\* the steps a token can take: the test of the round loop, parse_inst, the
\* test after the push, the test at the end of the round, the exit of the
\* newline loop
StepsPerToken == 5
\* the steps of a call whatever the source: the call, the exit of the first
\* newline loop, the last test of the round loop, the return, and one more
StepsPerCall == 5

\* C14: parse_rounds ends on every source, after a number of steps bounded
\* by the number of tokens, never stopped by MaxSteps; every iteration of the round
\* loop, of the loop of parse_group and of the newline loops takes at least
\* one token; and a stream that gives no token ends the loops.
C14_ParseRoundsTerminates ==
    /\ <>Ended
    /\ [](steps <= StepsPerToken * Len(Tokens) + StepsPerCall)
    /\ [](~Ended => steps < MaxSteps)
    /\ [][IterationConsumes /\ NoTokenEndsLoop]_steps

\* parse pushed a round, skipped a newline, and left its loop at a byte that
\* gives no token; parse_rounds returned
C14_Witness ==
    /\ pc = "parsed"
    /\ stack # <<>> /\ Len(stack[1].insts) = 1
    /\ AtUnmatchedByte(ts)
    /\ PosOf(source, Consumed)[1] = 2

====
